---- MODULE Spec2Model ----
(***************************************************************************)
(* The redshift input plugin (plugins/inputs/redshift/redshift.go): the    *)
(* package-level query catalog, Gather's fan-out of one goroutine per      *)
(* catalog entry, the per-query run (open, ping, query, columns, row       *)
(* loop) and the row-to-metric mapping of accRow.                          *)
(***************************************************************************)
EXTENDS Integers, Sequences, FiniteSets, Bags, TLC

(***************************************************************************)
(* Bounds of the model.                                                    *)
(***************************************************************************)
\* how many entries of initQueries' catalog the model runs
NumQueries == 2
\* the largest result set a query returns
MaxRows == 2
\* how many configured plugin instances ([[inputs.redshift]] tables)
NumInst == 2

Insts == 1..NumInst

(***************************************************************************)
(* The Redshift struct of each configured instance.  Instance 2 leaves     *)
(* cluster_name unset: Go's zero value, the empty string.                  *)
(***************************************************************************)
ClusterName(i) ==
    IF i = 1 THEN "lucid" ELSE IF i = 2 THEN "" ELSE "research"

IntervalSeconds(i) ==
    IF i = 1 THEN 500 ELSE IF i = 2 THEN 60 ELSE 120

Address(i) ==
    IF i = 1 THEN "host=lucid" ELSE IF i = 2 THEN "host=plain" ELSE "host=research"

(***************************************************************************)
(* The query templates (the rs... package variables).  A template is the   *)
(* sequence of the pieces fmt.Sprintf tells apart: literal text, the verb  *)
(* "%d" and the escape "%%".  columns are the aliases of the select list,  *)
(* which is what rows.Columns() reports for the script.                    *)
(***************************************************************************)
Windowed(head) == <<head, "%d", " seconds'">>

Templates ==
    [ rsColumnsNotCompressed |->
        [text |-> <<"select count(a.attname) from pg_attribute">>,
         columns |-> <<"Columns Not Compressed">>],
      rsDiskPctUsed |->
        [text |-> <<"select sum(used)/sum(capacity) from stv_partitions">>,
         columns |-> <<"Disk Percent Full">>],
      rsTableInfo |->
        [text |-> <<"select ... from svv_table_info">>,
         columns |-> <<"Tables Not Compressed", "Max Skew Sort Ratio",
                       "Total Skew Sort Ratio", "Number of Tables Skew Sort",
                       "Number of Tables Skewed", "Number of Tables Stats Off",
                       "Max VarChar Size", "Max Unsorted Percent",
                       "Total Table Rows">>],
      rsQueryScanNoSort |->
        [text |-> <<"select sum(nvl(s.num_qs,0)) from svv_table_info where starttime >= GETDATE() - INTERVAL '",
                    "%d", " seconds' group by tbl">>,
         columns |-> <<"Query Scans No Sort">>],
      rsTotalWLMQueueTime |->
        [text |-> <<"select SUM(w.total_queue_time) from stl_wlm_query where queue_start_time >= GETDATE() - INTERVAL '",
                    "%d", " seconds' and w.total_queue_time > 0">>,
         columns |-> <<"Total WLM Queue Time Seconds">>],
      rsTotalDiskBasedQueries |->
        [text |-> <<"select count(distinct query) from svl_query_report where (LABEL LIKE 'hash",
                    "%%", "' OR LABEL LIKE 'sort", "%%", "' OR LABEL LIKE 'aggr",
                    "%%", "') and start_time >= GETDATE() - INTERVAL '",
                    "%d", " seconds'">>,
         columns |-> <<"Total Disk Based Queries">>],
      rsAvgCommitQueue |->
        [text |-> Windowed("select avg(datediff(ms,startqueue,startwork)) from stl_commit_stats where startqueue >= GETDATE() - INTERVAL '"),
         columns |-> <<"Avg Commit Queue Size">>],
      rsTotalAlerts |->
        [text |-> Windowed("select count(distinct l.query) from stl_alert_event_log where event_time >= GETDATE() - INTERVAL '"),
         columns |-> <<"Total Alerts">>],
      rsAvgQueryTime |->
        [text |-> Windowed("select avg(datediff(ms, starttime, endtime)) from stl_query where starttime >= GETDATE() - INTERVAL '"),
         columns |-> <<"Avg Query Time ms">>],
      rsTotalPackets |->
        [text |-> Windowed("select sum(packets) from stl_dist where starttime >= GETDATE() - INTERVAL '"),
         columns |-> <<"Total Packets">>],
      rsQueriesTraffic |->
        [text |-> <<"select sum(total) from (select count(query) total from stl_dist where starttime >= GETDATE() - INTERVAL '",
                    "%d", " seconds' group by query having sum(packets) > 1000000)">>,
         columns |-> <<"Queries Traffic">>],
      rsDbConnections |->
        [text |-> <<"select count(event) from stl_connection_log">>,
         columns |-> <<"Database Connections">>],
      rsLoadRowScans |->
        [text |-> Windowed("select sum(lines_scanned) from stl_load_commits where curtime >= GETDATE() - INTERVAL '"),
         columns |-> <<"COPY - Load Lines Scanned">>],
      rsLoadErrors |->
        [text |-> Windowed("select count(1) from stl_load_errors where starttime >= GETDATE() - INTERVAL '"),
         columns |-> <<"COPY - Load Errors">>],
      rsUnloadedRows |->
        [text |-> Windowed("select sum(line_count) from stl_unload_log where start_time >= GETDATE() - INTERVAL '"),
         columns |-> <<"COPY - UnLoad Rows">>],
      rsAnalyzeOps |->
        [text |-> Windowed("select count(1) from stl_analyze where starttime >= GETDATE() - INTERVAL '"),
         columns |-> <<"Analyze Operations">>],
      rsAnalyzeDuration |->
        [text |-> <<"select avg(datediff(second, starttime, endtime)) from stl_analyze where starttime >= GETDATE() - INTERVAL '",
                    "%d", " seconds' and endtime is not null">>,
         columns |-> <<"Avg Analyze Duration sec">>],
      rsWLMService |->
        [text |-> <<"select ... from stv_wlm_service_class_state">>,
         columns |-> <<"Queued Queries", "Executing Queries",
                       "Serviced Queries", "Evicted Queries">>],
      rsCurrentQueries |->
        [text |-> <<"select count(1) from stv_inflight">>,
         columns |-> <<"Currently Running Queries">>] ]

(***************************************************************************)
(* queryFmt: fmt.Sprintf(query, interval) with one integer argument.  The  *)
(* first "%d" is replaced by the decimal form of the argument, "%%" by a   *)
(* single "%"; a further "%d" has no argument left.                        *)
(***************************************************************************)
RECURSIVE Sprintf(_, _, _)
Sprintf(text, interval, used) ==
    IF text = <<>> THEN <<>>
    ELSE IF Head(text) = "%d"
         THEN <<IF used THEN "%!d(MISSING)" ELSE ToString(interval)>>
                  \o Sprintf(Tail(text), interval, TRUE)
         ELSE IF Head(text) = "%%"
              THEN <<"%">> \o Sprintf(Tail(text), interval, used)
              ELSE <<Head(text)>> \o Sprintf(Tail(text), interval, used)

\* queryFmt with the interval of the sample configuration whatever the
\* instance's
queryFmt_Sample(query, interval) == Sprintf(query, 500, FALSE)

queryFmt(query, interval) == Sprintf(query, interval, FALSE)

(***************************************************************************)
(* initQueries, statement by statement (lines 59-77): entry k of the list  *)
(* is the k-th assignment queries[name] = Query{Script, Measurement}.      *)
(***************************************************************************)
Plain(name, tmpl, m) ==
    [name |-> name, tmpl |-> tmpl, windowed |-> FALSE, Measurement |-> m]

Fmt(name, tmpl, m) ==
    [name |-> name, tmpl |-> tmpl, windowed |-> TRUE, Measurement |-> m]

InitStatements ==
    << Plain("ColumnsNotCompressed", "rsColumnsNotCompressed", "column"),
       Plain("TableInfo", "rsTableInfo", "table"),
       Fmt("QueryScanNoSort", "rsQueryScanNoSort", "query"),
       Fmt("TotalWLMQueueTime", "rsTotalWLMQueueTime", "wlm"),
       Fmt("TotalDiskBasedQueries", "rsTotalDiskBasedQueries", "query"),
       Fmt("AvgCommitQueue", "rsAvgCommitQueue", "operation"),
       Fmt("TotalAlerts", "rsTotalAlerts", "operation"),
       Fmt("AvgQueryTime", "rsAvgQueryTime", "query"),
       Fmt("TotalPackets", "rsTotalPackets", "network"),
       Fmt("QueriesTraffic", "rsQueriesTraffic", "network"),
       Plain("DbConnections", "rsDbConnections", "operation"),
       Fmt("CopyLoadLineScans", "rsLoadRowScans", "operation"),
       Fmt("CopyLoadErrors", "rsLoadErrors", "operation"),
       Fmt("CopyUnloadedRows", "rsUnloadedRows", "operation"),
       Fmt("AnalyzeOperations", "rsAnalyzeOps", "operation"),
       Fmt("AnalyzeDuration", "rsAnalyzeDuration", "operation"),
       Plain("WLMService", "rsWLMService", "wlm"),
       Plain("RunningQueries", "rsCurrentQueries", "query"),
       Plain("DiskPctUsage", "rsDiskPctUsed", "disk") >>

\* The statements the model runs: NumQueries consecutive ones from
\* AnalyzeDuration on, so that a time-windowed script, a plain one and a
\* result set of several columns are among them.
FirstStatement == CHOOSE k \in 1..Len(InitStatements) : InitStatements[k].name = "AnalyzeDuration"

Catalog == SubSeq(InitStatements, FirstStatement, FirstStatement + NumQueries - 1)

\* the names of the catalog entries those statements are to produce
Names == {InitStatements[k].name : k \in FirstStatement..(FirstStatement + NumQueries - 1)}

\* The Query value statement st stores when r.IntervalSeconds is interval.
QueryFor(st, interval) ==
    [Script |-> IF st.windowed
                THEN queryFmt(Templates[st.tmpl].text, interval)
                ELSE Templates[st.tmpl].text,
     Measurement |-> st.Measurement,
     OrderedColumns |-> <<>>]

\* The Query value statement st stores for instance r.
QueryOf(st, r) == QueryFor(st, IntervalSeconds(r))


\* the statement that stores the entry called name
StmtOf ==
    [name \in {InitStatements[k].name : k \in 1..Len(InitStatements)} |->
        CHOOSE st \in {InitStatements[k] : k \in 1..Len(InitStatements)} : st.name = name]

Stmt(name) == StmtOf[name]

\* the catalog initQueries builds for each instance
BuiltFor == [i \in Insts |-> [name \in Names |-> QueryOf(Stmt(name), i)]]

(***************************************************************************)
(* The target's answers.  rows.Columns() reports the select list of the    *)
(* script; row j of a result set holds one value per column.               *)
(***************************************************************************)
ServerColumns(name) == Templates[Stmt(name).tmpl].columns

ServerRow(name, j) == [c \in 1..Len(ServerColumns(name)) |-> 10 * j + c]

(***************************************************************************)
(* Error values.  An error is an interface value: a type word and a data   *)
(* word.  Nil is the interface whose two words are nil.  The driver's      *)
(* errors are told apart by the call that returned them.                   *)
(***************************************************************************)
Nil == "nil"

ErrOpen == "sql.Open"
ErrPing == "conn.Ping"
ErrQuery == "conn.Query"
ErrColumns == "rows.Columns"
ErrScan == "row.Scan"
ErrRows == "rows.Err"

Errors == {ErrOpen, ErrPing, ErrQuery, ErrColumns, ErrScan, ErrRows}

Iface(e) == [tab |-> e, data |-> e]

\* err != nil compares the type word
IsNil(v) == v.tab = Nil

(***************************************************************************)
(* State.                                                                  *)
(*   queries   the package variable: the map it refers to (0: nil map)     *)
(*   maps      the maps make(MapQuery) has allocated, by address; a map is *)
(*             a function from the names stored so far to Query values,    *)
(*             and a map nothing refers to any more is the empty one       *)
(*   gpc       per instance, where its Gather call stands                  *)
(*   stored    per instance, how many statements of initQueries have run   *)
(*   ranged    per instance, the map its range loop iterates (0: none)     *)
(*   visited   per instance, the names the range loop has produced         *)
(*   wg        per instance, the WaitGroup counter of the call             *)
(*   outerr    per instance, the call's shared outerr variable             *)
(*   ret       per instance, the value the call returned                   *)
(*   run       per instance and name, the goroutine dispatched for it; j   *)
(*             counts the rows rows.Next() has produced                    *)
(*   acc       per instance and goroutine, the AddFields calls the         *)
(*             goroutine has made on the call's accumulator, in order      *)
(*   started   history: per instance and name, how many goroutines the     *)
(*             current call has started for the entry                      *)
(*   stub      the answers a stubbed target gives, per name (NoStub: the   *)
(*             target answers as it likes)                                 *)
(*   prev      history: how many calls the host has taken the result of,   *)
(*             and the metric records of the last of them                  *)
(*   fn        the frame of a function called on its own, outside Gather:  *)
(*             its arguments and its result (NoCall: none)                 *)
(***************************************************************************)
VARIABLES queries, maps, gpc, stored, ranged, visited, wg, outerr, ret, run,
          acc, started, stub, prev, fn

vars == <<queries, maps, gpc, stored, ranged, visited, wg, outerr, ret, run,
          acc, started, stub, prev, fn>>

\* what the program itself never writes: the target's script, the record of
\* an earlier call, the frame of a function called on its own
given == <<stub, prev, fn>>

\* addresses: no more maps are alive than one per range loop and the one the
\* package variable refers to
MapIds == 1..(NumInst + 1)

NoQuery == [Script |-> <<>>, Measurement |-> "", OrderedColumns |-> <<>>]

NoRun ==
    [pc |-> "none", addr |-> "", query |-> NoQuery, conn |-> "none", rows |-> "none",
     defers |-> <<>>, j |-> 0, err |-> Nil]

NoStub == <<>>

NoPrev == [calls |-> 0, records |-> EmptyBag]

NoCall == [name |-> "none"]

\* the program's own state after construction
InitProgram ==
    /\ queries = 0
    /\ maps = [m \in MapIds |-> <<>>]
    /\ gpc = [i \in Insts |-> "idle"]
    /\ stored = [i \in Insts |-> 0]
    /\ ranged = [i \in Insts |-> 0]
    /\ visited = [i \in Insts |-> {}]
    /\ wg = [i \in Insts |-> 0]
    /\ outerr = [i \in Insts |-> Iface(Nil)]
    /\ ret = [i \in Insts |-> Iface(Nil)]
    /\ run = [i \in Insts |-> [q \in Names |-> NoRun]]
    /\ acc = [i \in Insts |-> [q \in Names |-> <<>>]]
    /\ started = [i \in Insts |-> [q \in Names |-> 0]]

Init ==
    /\ InitProgram
    /\ stub = NoStub
    /\ prev = NoPrev
    /\ fn = NoCall

(***************************************************************************)
(* accRow (lines 139-165).                                                 *)
(***************************************************************************)
\* columnMap: one fresh slot per distinct column name (lines 144-147)
ColumnMapKeys(cols) == {cols[n] : n \in 1..Len(cols)}

\* columnVars: len(columnMap) destinations, the n-th the slot of
\* OrderedColumns[n] (lines 149-151); a slot is named by its key
ColumnVars(cols) == [n \in 1..Cardinality(ColumnMapKeys(cols)) |-> cols[n]]

\* Rows.Scan stores value n through destination n when it is handed as many
\* destinations as the row has values, and fails otherwise
ScanAccepts(dest, values) == Len(dest) = Len(values)

\* the slot of col once Scan has stored through every destination in order
SlotValue(dest, values, col) ==
    LET ns == {n \in 1..Len(dest) : dest[n] = col}
    IN  values[CHOOSE n \in ns : \A m \in ns : m <= n]

\* Tags with the label read from one shared place instead of the receiver
Tags_Shared(r) == [cluster |-> ClusterName(1)]

\* tags (line 158)
Tags(r) == [cluster |-> ClusterName(r)]

\* Record with a field that counts the Gather calls made before this one
Record_Numbered(r, query, values) ==
    LET dest == ColumnVars(query.OrderedColumns)
    IN  [measurement |-> query.Measurement,
         fields |-> [col \in ColumnMapKeys(query.OrderedColumns) \cup {"gather"} |->
                        IF col = "gather" THEN prev.calls
                        ELSE SlotValue(dest, values, col)],
         tags |-> Tags(r)]

\* Record with one measurement name for every query, the plugin's name
Record_Redshift(r, query, values) ==
    LET dest == ColumnVars(query.OrderedColumns)
    IN  [measurement |-> "redshift",
         fields |-> [col \in ColumnMapKeys(query.OrderedColumns) |->
                        SlotValue(dest, values, col)],
         tags |-> Tags(r)]

\* the AddFields call of line 163 for a row that scanned
Record(r, query, values) ==
    LET dest == ColumnVars(query.OrderedColumns)
    IN  [measurement |-> query.Measurement,
         fields |-> [col \in ColumnMapKeys(query.OrderedColumns) |->
                        SlotValue(dest, values, col)],
         tags |-> Tags(r)]

\* accRow's result: the error of line 155, or nil after AddFields.
\* scanFails: the scanner itself reports an error for this row.
accRowErr(query, values, scanFails) ==
    IF scanFails \/ ~ScanAccepts(ColumnVars(query.OrderedColumns), values)
    THEN ErrScan ELSE Nil

\* AddFields called from inside the loop of lines 160-162, once per column
AddFields_PerColumn(a, rec) ==
    a \o [c \in 1..Cardinality(DOMAIN rec.fields) |-> rec]

\* the calls the accumulator has received after one more AddFields call
AddFields(a, rec) == Append(a, rec)

\* Emitted with AddFields called before the result of row.Scan is looked at
Emitted_BeforeScan(a, rec, e) == AddFields(a, rec)

\* lines 153-163: the calls the accumulator has received after accRow, which
\* returns before AddFields when row.Scan returned the error e
Emitted(a, rec, e) == IF e = Nil THEN AddFields(a, rec) ELSE a

(***************************************************************************)
(* Gather (lines 85-101) and initQueries (lines 57-78).                    *)
(***************************************************************************)
\* The host calls Gather on instance i.
Call(i) ==
    /\ gpc[i] = "idle"
    /\ gpc' = [gpc EXCEPT ![i] = "make"]
    /\ UNCHANGED <<queries, maps, stored, ranged, visited, wg, outerr, ret, run,
                   acc, started, given>>

\* The host polls its inputs one after the other.
GatherCall(i) ==
    /\ \A o \in Insts : gpc[o] = "idle"
    /\ Call(i)

\* the maps once only the addresses in refs are referred to
Collect(ms, refs) == [m \in MapIds |-> IF m \in refs THEN ms[m] ELSE <<>>]

\* line 58: queries = make(MapQuery)
InitMake(i) ==
    /\ gpc[i] = "make"
    /\ LET inUse == {ranged[o] : o \in Insts} \ {0}
           new == CHOOSE m \in MapIds \ inUse : \A o \in MapIds \ inUse : m <= o
       IN  /\ queries' = new
           /\ maps' = Collect([maps EXCEPT ![new] = <<>>], inUse \cup {new})
    /\ gpc' = [gpc EXCEPT ![i] = "fill"]
    /\ UNCHANGED <<stored, ranged, visited, wg, outerr, ret, run, acc, started,
                   given>>

\* a map after m[name] = v
MapStore(m, name, v) ==
    [n \in DOMAIN m \cup {name} |-> IF n = name THEN v ELSE m[n]]

\* lines 59-77: the next statement queries[name] = Query{...}; after the last
\* one initQueries returns and Gather declares wg and outerr (lines 88-89)
InitStore(i) ==
    /\ gpc[i] = "fill"
    /\ stored[i] < Len(Catalog)
    /\ LET st == Catalog[stored[i] + 1]
       IN  maps' = [maps EXCEPT ![queries] = MapStore(@, st.name, QueryOf(st, i))]
    /\ stored' = [stored EXCEPT ![i] = @ + 1]
    /\ gpc' = [gpc EXCEPT ![i] = IF stored[i] + 1 = Len(Catalog) THEN "range" ELSE "fill"]
    /\ UNCHANGED <<queries, ranged, visited, wg, outerr, ret, run, acc, started,
                   given>>

\* line 91: the range expression is evaluated once, before the first iteration
RangeBegin(i) ==
    /\ gpc[i] = "range"
    /\ ranged' = [ranged EXCEPT ![i] = queries]
    /\ gpc' = [gpc EXCEPT ![i] = "loop"]
    /\ UNCHANGED <<queries, maps, stored, visited, wg, outerr, ret, run, acc,
                   started, given>>

\* the entries the iteration has not produced yet
RangeLeft(i) == DOMAIN maps[ranged[i]] \ visited[i]

\* Spawned with the closure reading the loop variable, which by then holds
\* the entry of the last iteration, instead of receiving the entry as argument
Spawned_Captured(addr, query) ==
    [NoRun EXCEPT !.pc = "open", !.addr = addr,
                  !.query = QueryOf(Catalog[Len(Catalog)], 1)]

\* the goroutine of line 93 as the go statement creates it: its arguments
\* (r.Address, query) are evaluated by the loop
Spawned(addr, query) == [NoRun EXCEPT !.pc = "open", !.addr = addr, !.query = query]

\* lines 91-96: one iteration, in the map's unspecified order: wg.Add(1) and
\* the go statement
RangeNext(i, q) ==
    /\ gpc[i] = "loop"
    /\ q \in RangeLeft(i)
    /\ visited' = [visited EXCEPT ![i] = @ \cup {q}]
    /\ wg' = [wg EXCEPT ![i] = @ + 1]
    /\ run' = [run EXCEPT ![i][q] = Spawned(Address(i), maps[ranged[i]][q])]
    /\ started' = [started EXCEPT ![i][q] = @ + 1]
    /\ UNCHANGED <<queries, maps, gpc, stored, ranged, outerr, ret, acc, given>>

\* line 97: the iteration is over
RangeEnd(i) ==
    /\ gpc[i] = "loop"
    /\ RangeLeft(i) = {}
    /\ gpc' = [gpc EXCEPT ![i] = "wait"]
    /\ ranged' = [ranged EXCEPT ![i] = 0]
    /\ maps' = Collect(maps, ({ranged[o] : o \in Insts \ {i}} \cup {queries}) \ {0})
    /\ UNCHANGED <<queries, stored, visited, wg, outerr, ret, run, acc, started,
                   given>>

\* Gather returning without wg.Wait()
WaitUnblocked_NoWait(i) == TRUE

\* Gather returning as soon as one run has reported an error
WaitUnblocked_FirstError(i) == wg[i] = 0 \/ ~IsNil(outerr[i])

\* wg.Wait() unblocks when the counter is zero
WaitUnblocked(i) == wg[i] = 0

\* lines 99-100: wg.Wait(); return outerr
WaitReturn(i) ==
    /\ gpc[i] = "wait"
    /\ WaitUnblocked(i)
    /\ ret' = [ret EXCEPT ![i] = outerr[i]]
    /\ gpc' = [gpc EXCEPT ![i] = "returned"]
    /\ UNCHANGED <<queries, maps, stored, ranged, visited, wg, outerr, run, acc,
                   started, given>>

\* The host has taken the result and the metrics; the call's frame is gone.
Released(i) ==
    /\ gpc[i] = "returned"
    /\ gpc' = [gpc EXCEPT ![i] = "idle"]
    /\ stored' = [stored EXCEPT ![i] = 0]
    /\ visited' = [visited EXCEPT ![i] = {}]
    /\ outerr' = [outerr EXCEPT ![i] = Iface(Nil)]
    /\ ret' = [ret EXCEPT ![i] = Iface(Nil)]
    /\ run' = [run EXCEPT ![i] = [q \in Names |-> NoRun]]
    /\ acc' = [acc EXCEPT ![i] = [q \in Names |-> <<>>]]
    /\ started' = [started EXCEPT ![i] = [q \in Names |-> 0]]
    /\ UNCHANGED <<queries, maps, ranged, wg>>

Release(i) == Released(i) /\ UNCHANGED given

(***************************************************************************)
(* gather (lines 103-137): the run of one query, a goroutine of its own.   *)
(***************************************************************************)
\* one deferred call (lines 115, 122)
RunDeferred(rn, d) ==
    IF d = "rows.Close" THEN [rn EXCEPT !.rows = "closed"]
    ELSE [rn EXCEPT !.conn = "closed"]

\* the deferred calls of the frame, last registered first
RECURSIVE RunDefers(_)
RunDefers(rn) ==
    IF rn.defers = <<>> THEN rn
    ELSE RunDefers(RunDeferred([rn EXCEPT !.defers = SubSeq(@, 1, Len(@) - 1)],
                               rn.defers[Len(rn.defers)]))

\* Return for a goroutine that calls wg.Done() at its end instead of deferring
\* it, and leaves early when gather returned an error
Return_NoDoneOnError(rn, e) ==
    [RunDefers(rn) EXCEPT !.err = e, !.pc = IF e = Nil THEN "store" ELSE "gone"]

\* return e: the deferred calls run, and the goroutine is left with the
\* assignment of line 95 to do
Return(rn, e) == [RunDefers(rn) EXCEPT !.err = e, !.pc = "store"]

\* Opened with the query run on the handle as it is, no conn.Ping before it
Opened_NoPing(rn) == [rn EXCEPT !.conn = "open", !.pc = "query"]

\* line 105 succeeded: sql.Open(driver, addr) returned a handle
Opened(rn) == [rn EXCEPT !.conn = "open", !.pc = "ping"]

\* line 110 succeeded; line 115 registers conn.Close
Pinged(rn) == [rn EXCEPT !.defers = Append(@, "conn.Close"), !.pc = "query"]

\* Queried without the defer of line 122
Queried_NoDefer(rn) == [rn EXCEPT !.rows = "open"]

\* line 118 succeeded; line 122 registers rows.Close
Queried(rn) == [rn EXCEPT !.rows = "open", !.defers = Append(@, "rows.Close")]

\* line 125 succeeded: the snapshot goes into the run's own Query value
GotColumns(rn, cols) == [rn EXCEPT !.query.OrderedColumns = cols, !.pc = "next"]

RunFrame == <<queries, maps, gpc, stored, ranged, visited, wg, ret, started, given>>

\* CatalogAfter for a catalog of pointers (map[string]*Query) handed to the
\* runs as they are: the assignment of line 125 writes the entry itself
CatalogAfter_ByPointer(ms, q, cols) ==
    [m \in MapIds |->
        IF q \in DOMAIN ms[m] THEN [ms[m] EXCEPT ![q].OrderedColumns = cols]
        ELSE ms[m]]

\* the maps after line 125 has assigned the columns of entry q's result to
\* query.OrderedColumns: query is gather's parameter, a copy of the map's
\* value made by the go statement, so no map is written
CatalogAfter(ms, q, cols) == ms

\* lines 105-108: sql.Open
RunOpen(i, q) ==
    /\ run[i][q].pc = "open"
    /\ \E ok \in BOOLEAN :
          run' = [run EXCEPT ![i][q] = IF ok THEN Opened(@) ELSE Return(@, ErrOpen)]
    /\ UNCHANGED <<RunFrame, outerr, acc>>

\* lines 110-115: conn.Ping
RunPing(i, q) ==
    /\ run[i][q].pc = "ping"
    /\ \E ok \in BOOLEAN :
          run' = [run EXCEPT ![i][q] = IF ok THEN Pinged(@) ELSE Return(@, ErrPing)]
    /\ UNCHANGED <<RunFrame, outerr, acc>>

\* lines 118-128: conn.Query(query.Script), then rows.Columns() on its result
RunQuery(i, q) ==
    /\ run[i][q].pc = "query"
    /\ \E got \in {"columns", "no rows", "no columns"} :
          /\ run' = [run EXCEPT ![i][q] =
                     IF got = "no rows" THEN Return(@, ErrQuery)
                     ELSE IF got = "no columns" THEN Return(Queried(@), ErrColumns)
                     ELSE GotColumns(Queried(@), ServerColumns(q))]
          /\ maps' = IF got = "columns" THEN CatalogAfter(maps, q, ServerColumns(q))
                     ELSE maps
    /\ UNCHANGED <<queries, gpc, stored, ranged, visited, wg, ret, started, given,
                   outerr, acc>>

\* lines 130-136, one turn of the loop: rows.Next() reports the next row of
\* the result set, its end, or a failure to fetch; accRow handles the row, and
\* without a row the run returns rows.Err().  scanFails: the scanner reports
\* an error for the row.
RunRow(i, q) ==
    /\ run[i][q].pc = "next"
    /\ \E got \in {"row", "end", "broken"}, scanFails \in BOOLEAN :
          LET rn == [run[i][q] EXCEPT !.j = @ + 1]
              values == ServerRow(q, rn.j)
              e == accRowErr(rn.query, values, scanFails)
          IN  /\ got = "row" => rn.j <= MaxRows
              /\ got # "row" => ~scanFails
              /\ run' = [run EXCEPT ![i][q] =
                            IF got = "end" THEN Return(@, Nil)
                            ELSE IF got = "broken" THEN Return(@, ErrRows)
                            ELSE IF e # Nil THEN Return(rn, e)
                            ELSE rn]
              /\ acc' = IF got = "row"
                        THEN [acc EXCEPT ![i][q] = Emitted(@, Record(i, rn.query, values), e)]
                        ELSE acc
    /\ UNCHANGED <<RunFrame, outerr>>

\* TypeWord for a gather declared to return a pointer to a concrete error
\* type: a nil pointer assigned to outerr makes an interface that is not nil
TypeWord_Pointer(e) == IF e = Nil THEN "*pq.Error" ELSE e

\* the type word of the interface value the assignment of line 95 stores:
\* gather's result is of type error, so its nil is the nil interface
TypeWord(e) == e

\* the goroutines of call i that have returned from gather and have the
\* assignment of line 95 to do
Storing(i) == {q \in Names : run[i][q].pc = "store"}

\* line 95, outerr = ..., and the deferred wg.Done() of line 94, by every
\* goroutine of W, whose stores overlap in time.  Nothing orders the stores
\* and an interface value is stored one word at a time, so of each word the
\* store that comes last survives: the type word of one goroutine of W and
\* the data word of one goroutine of W.  A single goroutine (W of one
\* element) stores its own two words.
RunStore(i, W) ==
    /\ W # {}
    /\ W \subseteq Storing(i)
    /\ \E t \in W, d \in W :
          outerr' = [outerr EXCEPT ![i] = [tab |-> TypeWord(run[i][t].err),
                                           data |-> run[i][d].err]]
    /\ wg' = [wg EXCEPT ![i] = @ - Cardinality(W)]
    /\ run' = [run EXCEPT ![i] = [q \in Names |->
                  IF q \in W THEN [run[i][q] EXCEPT !.pc = "done"] ELSE run[i][q]]]
    /\ UNCHANGED <<queries, maps, gpc, stored, ranged, visited, ret, acc, started,
                   given>>

RunStep(i, q) ==
    \/ RunOpen(i, q)
    \/ RunPing(i, q)
    \/ RunQuery(i, q)
    \/ RunRow(i, q)

GatherStep(i) ==
    \/ InitMake(i)
    \/ InitStore(i)
    \/ RangeBegin(i)
    \/ \E q \in Names : RangeNext(i, q)
    \/ RangeEnd(i)
    \/ WaitReturn(i)
    \/ Release(i)

Next ==
    \/ \E i \in Insts : GatherCall(i)
    \/ \E i \in Insts : GatherStep(i)
    \/ \E i \in Insts : \E q \in Names : RunStep(i, q)
    \/ \E i \in Insts : \E W \in SUBSET Names : RunStore(i, W)

Spec == Init /\ [][Next]_vars

\* One instance, polled again and again.
FairNext ==
    \/ GatherCall(1)
    \/ GatherStep(1)
    \/ \E q \in Names : RunStep(1, q)
    \/ \E W \in SUBSET Names : RunStore(1, W)

\* Scheduling: the Go scheduler runs a goroutine that can run, and every
\* blocking call of a run (sql.Open, conn.Ping, conn.Query, rows.Next)
\* returns; so as long as some goroutine of the call has a step to take, a
\* step is taken.  Nothing is assumed about which goroutine takes it.
Fairness == WF_vars(FairNext)

FairSpec == Init /\ [][FairNext]_vars /\ Fairness


(***************************************************************************)
(* Two Gather calls in sequence on instance 1 against a stubbed target,    *)
(* which answers a query the same way each time it is asked: stub[name] is *)
(* the error the run of name ends with and the rows it has read by then.   *)
(***************************************************************************)
\* The answers tried: a failure before the query and one after it, an empty
\* result set and a full one, a fetch that breaks after the first row and a
\* scan that fails on the last.
Responses ==
    { [err |-> ErrPing, j |-> 0], [err |-> ErrColumns, j |-> 0],
      [err |-> Nil, j |-> 0], [err |-> Nil, j |-> MaxRows],
      [err |-> ErrRows, j |-> 1], [err |-> ErrScan, j |-> MaxRows] }

\* whether a run in state rn can be a run the stub answers with s
Scripted(rn, s) ==
    CASE rn.pc = "ping" -> s.err # ErrOpen
      [] rn.pc = "query" -> s.err \notin {ErrOpen, ErrPing}
      [] rn.pc = "next" ->
            /\ s.err \in {Nil, ErrRows, ErrScan}
            /\ IF s.err = ErrScan THEN rn.j < s.j ELSE rn.j <= s.j
      [] rn.pc = "store" -> rn.err = s.err /\ rn.j = s.j
      [] OTHER -> TRUE

\* the AddFields calls of a goroutine as a multiset
RECURSIVE BagOfSeq(_)
BagOfSeq(a) ==
    IF a = <<>> THEN EmptyBag ELSE BagOfSeq(Tail(a)) (+) SetToBag({Head(a)})

\* the metric records the accumulator of call i has received from the
\* goroutines of the names in S
RECURSIVE Records(_, _)
Records(i, S) ==
    IF S = {} THEN EmptyBag
    ELSE LET q == CHOOSE n \in S : TRUE
         IN  BagOfSeq(acc[i][q]) (+) Records(i, S \ {q})

TwiceInit ==
    /\ InitProgram
    /\ stub \in [Names -> Responses]
    /\ prev = NoPrev
    /\ fn = NoCall

\* the host calls Gather, for the first or the second time
TwiceCall ==
    /\ prev.calls <= 1
    /\ GatherCall(1)

\* a step of a run against the stub
StubStep(i, q) ==
    /\ RunStep(i, q)
    /\ Scripted(run'[i][q], stub[q])

\* the host takes the result and the metrics of the first call
TwiceRelease ==
    /\ prev.calls = 0
    /\ Released(1)
    /\ prev' = [calls |-> 1, records |-> Records(1, Names)]
    /\ UNCHANGED <<stub, fn>>

TwiceNext ==
    \/ TwiceCall
    \/ InitMake(1)
    \/ InitStore(1)
    \/ RangeBegin(1)
    \/ \E q \in Names : RangeNext(1, q)
    \/ RangeEnd(1)
    \/ WaitReturn(1)
    \/ TwiceRelease
    \/ \E q \in Names : StubStep(1, q)
    \/ \E W \in SUBSET Names : RunStore(1, W)

TwiceSpec == TwiceInit /\ [][TwiceNext]_vars

(***************************************************************************)
(* Gather calls that overlap in time: the host runs the Gather calls of    *)
(* its inputs concurrently, so a call of one instance can be anywhere      *)
(* between lines 86 and 100 while a call of another instance runs.  The    *)
(* target is healthy and answers every query with one row.                 *)
(***************************************************************************)
Healthy == [err |-> Nil, j |-> 1]

OverlapInit ==
    /\ InitProgram
    /\ stub = [q \in Names |-> Healthy]
    /\ prev = NoPrev
    /\ fn = NoCall

\* Call i stores into the map the package variable refers to (lines 59-77)
\* while call o stores into it or iterates over it (line 91): the runtime may
\* detect the unsynchronised access ("concurrent map writes", "concurrent map
\* iteration and map write") and end the process.
MapFatal(i, o) ==
    /\ i # o
    /\ gpc[i] = "fill"
    /\ \/ gpc[o] = "fill"
       \/ gpc[o] = "loop" /\ ranged[o] = queries
    /\ gpc' = [n \in Insts |-> "fatal"]
    /\ run' = [n \in Insts |-> [q \in Names |-> NoRun]]
    /\ UNCHANGED <<queries, maps, stored, ranged, visited, wg, outerr, ret, acc,
                   started, given>>

OverlapNext ==
    \/ \E i \in Insts : Call(i)
    \/ \E i \in Insts : GatherStep(i)
    \/ \E i \in Insts : \E q \in Names : StubStep(i, q)
    \/ \E i \in Insts : \E W \in SUBSET Names : RunStore(i, W)
    \/ \E i, o \in Insts : MapFatal(i, o)

OverlapSpec == OverlapInit /\ [][OverlapNext]_vars

(***************************************************************************)
(* accRow called on its own (lines 139-165): the query's ordered column    *)
(* list and the row the scanner holds are the inputs.  A column list may   *)
(* name a column twice (select a, a ...); a row has one value per column,  *)
(* of one of the kinds the driver hands out.                               *)
(***************************************************************************)
\* the longest column list handed to accRow
MaxCols == 3

ColumnNames == {"a", "b", "c"}

DriverValues ==
    { [kind |-> "int64", val |-> "1"], [kind |-> "float64", val |-> "1.5"],
      [kind |-> "bool", val |-> "true"], [kind |-> "string", val |-> "x"] }

SeqsUpTo(S, n) == UNION {[1..k -> S] : k \in 0..n}

RowInit ==
    /\ InitProgram
    /\ stub = NoStub
    /\ prev = NoPrev
    /\ \E cols \in SeqsUpTo(ColumnNames, MaxCols) :
          \E values \in [1..Len(cols) -> DriverValues] :
             fn = [name |-> "accRow", r |-> 1,
                   query |-> [Script |-> <<>>, Measurement |-> "query",
                              OrderedColumns |-> cols],
                   row |-> values, pc |-> "call", scanFails |-> FALSE,
                   dest |-> <<>>, err |-> Nil, added |-> <<>>]

\* one call r.accRow(query, acc, row): the destinations handed to row.Scan,
\* the error returned and the AddFields calls made
AccRowCall ==
    /\ fn.name = "accRow"
    /\ fn.pc = "call"
    /\ \E scanFails \in BOOLEAN :
          LET e == accRowErr(fn.query, fn.row, scanFails)
          IN  fn' = [fn EXCEPT !.pc = "done", !.scanFails = scanFails,
                               !.dest = ColumnVars(fn.query.OrderedColumns),
                               !.err = e,
                               !.added = Emitted(<<>>, Record(fn.r, fn.query, fn.row), e)]
    /\ UNCHANGED <<queries, maps, gpc, stored, ranged, visited, wg, outerr, ret,
                   run, acc, started, stub, prev>>

RowNext == AccRowCall

RowSpec == RowInit /\ [][RowNext]_vars

(***************************************************************************)
(* initQueries called on its own (lines 57-78) for an instance whose       *)
(* IntervalSeconds is the input: the map it builds, statement by           *)
(* statement, and the same once more.                                      *)
(***************************************************************************)
\* the largest small interval tried besides the configured ones
MaxLookback == 3

Lookbacks == (-1..MaxLookback) \cup {IntervalSeconds(i) : i \in Insts}

CatalogInit ==
    /\ InitProgram
    /\ stub = NoStub
    /\ prev = NoPrev
    /\ \E interval \in Lookbacks :
          fn = [name |-> "initQueries", interval |-> interval, k |-> 0,
                queries |-> <<>>, built |-> <<>>]

\* lines 59-77: the next assignment queries[name] = Query{...}
CatalogStore ==
    /\ fn.name = "initQueries"
    /\ fn.k < Len(InitStatements)
    /\ LET st == InitStatements[fn.k + 1]
       IN  fn' = [fn EXCEPT !.k = @ + 1,
                            !.queries = MapStore(@, st.name, QueryFor(st, fn.interval))]
    /\ UNCHANGED <<queries, maps, gpc, stored, ranged, visited, wg, outerr, ret,
                   run, acc, started, stub, prev>>

\* line 78, and line 58 of the next call: the map is complete, and a second
\* call starts from a fresh one
CatalogReturn ==
    /\ fn.name = "initQueries"
    /\ fn.k = Len(InitStatements)
    /\ Len(fn.built) < 2
    /\ fn' = [fn EXCEPT !.built = Append(@, fn.queries),
                        !.k = IF Len(fn.built) = 0 THEN 0 ELSE @,
                        !.queries = IF Len(fn.built) = 0 THEN <<>> ELSE @]
    /\ UNCHANGED <<queries, maps, gpc, stored, ranged, visited, wg, outerr, ret,
                   run, acc, started, stub, prev>>

CatalogNext == CatalogStore \/ CatalogReturn

CatalogSpec == CatalogInit /\ [][CatalogNext]_vars

(***************************************************************************)
(* Properties.                                                             *)
(***************************************************************************)
Returned(i) == gpc[i] = "returned"

\* the run for entry q of call i has returned from gather
Finished(i, q) == run[i][q].pc \in {"store", "done"}

Failed(i, q) == Finished(i, q) /\ run[i][q].err # Nil

Succeeded(i, q) == Finished(i, q) /\ run[i][q].err = Nil

\* C1: when at least one of the runs a Gather call dispatched has failed, the
\* call returns a non-nil error, whatever the order in which the runs finish.
C1_FailureIsReported ==
    \A i \in Insts :
        (Returned(i) /\ \E q \in Names : Failed(i, q)) => ~IsNil(ret[i])

\* C2: when Gather has returned, no run it dispatched is still in progress:
\* every goroutine it started has run to its end, failed or not.
C2_ReturnsAfterAllRuns ==
    \A i \in Insts :
        Returned(i) => \A q \in Names : run[i][q].pc \in {"none", "done"}

\* a call has returned after one run failed and another succeeded
C2_Witness ==
    \E i \in Insts :
        /\ Returned(i)
        /\ \E q1, q2 \in Names :
              /\ run[i][q1].pc = "done" /\ run[i][q1].err # Nil
              /\ run[i][q2].pc = "done" /\ run[i][q2].err = Nil


\* the fields of row n of name's result set: under each column's name, the
\* value the row holds in that column
RowFields ==
    [name \in Names |->
        [n \in 1..(MaxRows + 1) |->
            LET cols == ServerColumns(name)
                row == ServerRow(name, n)
            IN  [col \in {cols[c] : c \in 1..Len(cols)} |->
                    row[CHOOSE c \in 1..Len(cols) : cols[c] = col]]]]

\* whether log (a goroutine's AddFields calls) is one call per row 1..k of
\* name's result set, in the order of the rows: call n carries the fields of
\* row n
OneRecordPerRow(log, name, k) ==
    /\ Len(log) = k
    /\ \A n \in 1..k : log[n].fields = RowFields[name][n]

IsPrefix(a, b) == Len(a) <= Len(b) /\ SubSeq(b, 1, Len(a)) = a

\* C3: a failure aborts only the run it happens in.  The step in which a run
\* fails leaves every sibling run and every emitted metric as they were; the
\* metrics a call has emitted are never taken back; and when the call returns
\* every run has executed to its end and each run that succeeded has emitted
\* every row of its result set.
C3_FailureAbortsOnlyItsRun ==
    /\ [][\A i \in Insts : \A q \in Names :
             (run[i][q].err = Nil /\ run'[i][q].err # Nil)
                => /\ \A o \in Names \ {q} : run'[i][o] = run[i][o]
                   /\ acc' = acc]_vars
    /\ [][\A i \in Insts : \A q \in Names :
             gpc'[i] # "idle" => IsPrefix(acc[i][q], acc'[i][q])]_vars
    /\ [](\A i \in Insts :
             Returned(i) =>
                \A q \in Names :
                   /\ run[i][q].pc = "done"
                   /\ Succeeded(i, q) =>
                         OneRecordPerRow(acc[i][q], q, run[i][q].j))

\* a call has returned in which one run failed and a sibling, having read
\* rows, succeeded
C3_Witness ==
    \E i \in Insts :
        /\ Returned(i)
        /\ \E q1, q2 \in Names :
              /\ Failed(i, q1)
              /\ Succeeded(i, q2) /\ Len(acc[i][q2]) >= 1

\* C4: the connection a run opened is closed on every exit path before the
\* run returns, so that none is open when Gather has returned.
C4_ConnectionClosedOnEveryExit ==
    \A i \in Insts : \A q \in Names :
        Finished(i, q) => run[i][q].conn # "open"

\* C5: a fault after the query executed and before the row iteration is over
\* (rows.Columns, row.Scan or the iteration itself failing) releases both the
\* connection and the result set before the run returns.
C5_ReleasedOnFaultAfterQuery ==
    \A i \in Insts : \A q \in Names :
        (Finished(i, q) /\ run[i][q].err \in {ErrColumns, ErrScan, ErrRows})
            => run[i][q].conn = "closed" /\ run[i][q].rows = "closed"

\* a run has returned a scan failure on its second row
C5_Witness ==
    \E i \in Insts : \E q \in Names :
        Finished(i, q) /\ run[i][q].err = ErrScan /\ run[i][q].j = 2

\* the runs of call i that execute the script of catalog entry name
RunsOf(i, name) ==
    LET script == BuiltFor[i][name].Script
    IN  {q \in Names : run[i][q].pc # "none" /\ run[i][q].query.Script = script}

C7_OneRecordPerRowInOrder ==
    \A i \in Insts : \A q \in Names :
        Succeeded(i, q) => OneRecordPerRow(acc[i][q], q, run[i][q].j)

\* in one call a run has read a result set of two rows and another an empty one
C7_Witness ==
    \E i \in Insts : \E q1, q2 \in Names :
        /\ Succeeded(i, q1) /\ run[i][q1].j = 2 /\ Len(acc[i][q1]) = 2
        /\ Succeeded(i, q2) /\ run[i][q2].j = 0

\* C8: the shared error variable is handed off safely: never are two runs of
\* a call both about to store into it with nothing ordering the two stores.
C8_NoUnsynchronizedStores ==
    \A i \in Insts : Cardinality(Storing(i)) <= 1

\* the failed runs of call i whose error is the one the call returned
ReportedRuns(i) ==
    {q \in Names : Failed(i, q) /\ ret[i] = Iface(run[i][q].err)}

\* C9: the error Gather reports identifies the catalog entry whose run
\* produced it: it is the error of exactly one failed run of the call.
C9_ErrorIdentifiesQuery ==
    \A i \in Insts :
        (Returned(i) /\ ~IsNil(ret[i])) => Cardinality(ReportedRuns(i)) = 1

\* C10: every metric record carries exactly the tag set {cluster: ClusterName}
\* of the instance that gathered, for every query and every row.
C10_ClusterTag ==
    \A i \in Insts : \A q \in Names : \A n \in 1..Len(acc[i][q]) :
        /\ DOMAIN acc[i][q][n].tags = {"cluster"}
        /\ acc[i][q][n].tags.cluster = ClusterName(i)

\* the instance whose cluster_name is unset has emitted two rows of a query
C10_Witness ==
    \E i \in Insts : \E q \in Names :
        ClusterName(i) = "" /\ Len(acc[i][q]) = 2

\* the measurement names of the catalog
Categories == {"column", "table", "query", "wlm", "operation", "network", "disk"}

\* every name initQueries stores is stored with one Measurement, a category
OneCategoryPerEntry ==
    \A name \in DOMAIN StmtOf :
        LET ms == {InitStatements[k].Measurement :
                      k \in {n \in 1..Len(InitStatements) : InitStatements[n].name = name}}
        IN  Cardinality(ms) = 1 /\ ms \subseteq Categories

Mapped == fn.name = "accRow" /\ fn.pc = "done" /\ ~fn.scanFails

\* C12: for any ordered column-name sequence and any row of as many values,
\* the row is emitted as one field map with exactly one entry per result
\* column, which maps the i-th name to the i-th value, the value's kind
\* unchanged.
C12_RowMapping ==
    Mapped =>
        LET cols == fn.query.OrderedColumns
        IN  /\ Len(fn.added) = 1
            /\ Cardinality(DOMAIN fn.added[1].fields) = Len(cols)
            /\ \A n \in 1..Len(cols) :
                  /\ cols[n] \in DOMAIN fn.added[1].fields
                  /\ fn.added[1].fields[cols[n]] = fn.row[n]

\* C17: for every row read, the destinations passed to the row-read call are
\* as many as the result has columns, and the i-th destination is the slot of
\* the i-th column, also when a column name is repeated.
C17_OneDestinationPerColumn ==
    (fn.name = "accRow" /\ fn.pc = "done") =>
        LET cols == fn.query.OrderedColumns
        IN  /\ Len(fn.dest) = Len(cols)
            /\ \A n \in 1..Len(cols) : fn.dest[n] = cols[n]

\* the template with the interval's decimal form in place of its window
\* parameter and the escaped percent signs of its LIKE patterns unescaped
Substituted(text, interval) ==
    [n \in 1..Len(text) |->
        IF text[n] = "%d" THEN ToString(interval)
        ELSE IF text[n] = "%%" THEN "%" ELSE text[n]]

NonWindowed ==
    {"ColumnsNotCompressed", "TableInfo", "DbConnections", "WLMService",
     "RunningQueries", "DiskPctUsage"}

\* whether catalog is the catalog of lookback interval: all entries present,
\* the window substituted in the time-windowed ones, the others untouched
CatalogOf(catalog, interval) ==
    /\ DOMAIN catalog = DOMAIN StmtOf
    /\ \A name \in DOMAIN catalog :
          LET text == Templates[Stmt(name).tmpl].text
          IN  IF name \in NonWindowed
              THEN catalog[name].Script = text
              ELSE /\ \E n \in 1..Len(text) : text[n] = "%d"
                   /\ catalog[name].Script = Substituted(text, interval)

\* C13: building the catalog with lookback L substitutes L into the script of
\* every time-windowed query and leaves the script of the six non-windowed
\* ones identical to the template; a second build with the same L gives the
\* same catalog.
C13_LookbackSubstitution ==
    fn.name = "initQueries" =>
        /\ \A b \in 1..Len(fn.built) : CatalogOf(fn.built[b], fn.interval)
        /\ \A b, c \in 1..Len(fn.built) : fn.built[b] = fn.built[c]

\* the catalog has been built twice with a lookback of 500 seconds
C13_Witness ==
    fn.name = "initQueries" /\ fn.interval = 500 /\ Len(fn.built) = 2

\* C14: two Gather calls in sequence on one instance against a target that
\* answers every query the same way both times emit the same multiset of
\* metric records (measurement, fields, tags), whatever the interleaving of
\* the runs inside each call.
C14_SameRecordsTwice ==
    (Returned(1) /\ prev.calls = 1) => Records(1, Names) = prev.records

\* the second call has returned; in each call one run emitted rows and
\* another failed
C14_Witness ==
    /\ Returned(1) /\ prev.calls = 1
    /\ prev.records # EmptyBag
    /\ \E q1, q2 \in Names : Failed(1, q1) /\ Len(acc[1][q2]) = MaxRows

\* the order of a run's steps: from each place, the places its next step
\* may lead to
StepOrder ==
    { <<"none", "open">>, <<"open", "ping">>, <<"ping", "query">>,
      <<"query", "next">>, <<"open", "store">>, <<"ping", "store">>,
      <<"query", "store">>, <<"next", "store">>, <<"store", "done">> }

\* the errors a run can return from each place
StepErrors(pc) ==
    CASE pc = "open" -> {ErrOpen}
      [] pc = "ping" -> {ErrPing}
      [] pc = "query" -> {ErrQuery, ErrColumns}
      [] OTHER -> {Nil, ErrScan, ErrRows}

\* C15: a run executes its steps in the order open, ping, query, column
\* lookup, row iteration.  The script is executed only on a connection that
\* was opened and answered the ping, and a run that fails at open, ping,
\* query execution or column lookup returns the error of that step and emits
\* no metric record.
C15_StepsInOrder ==
    /\ [][\A i \in Insts : \A q \in Names :
             LET a == run[i][q]
                 b == run'[i][q]
             IN  /\ (b.pc # a.pc /\ b.pc # "none") => <<a.pc, b.pc>> \in StepOrder
                 /\ (a.pc = "query" /\ b # a) =>
                        a.conn = "open" /\ a.defers = <<"conn.Close">>
                 /\ (a.pc # "store" /\ b.pc = "store") =>
                        /\ b.err \in StepErrors(a.pc)
                        /\ a.pc \in {"open", "ping", "query"} => acc'[i][q] = <<>>]_vars
    /\ [](\A i \in Insts : \A q \in Names :
             (Finished(i, q) /\ run[i][q].err \in {ErrOpen, ErrPing, ErrQuery, ErrColumns})
                => /\ acc[i][q] = <<>>
                   /\ run[i][q].j = 0
                   /\ run[i][q].err \in {ErrOpen, ErrPing} =>
                         run[i][q].rows = "none" /\ run[i][q].query.OrderedColumns = <<>>)

\* in one call a run has failed at the ping and another at the column lookup
C15_Witness ==
    \E i \in Insts : \E q1, q2 \in Names :
        /\ Failed(i, q1) /\ run[i][q1].err = ErrPing
        /\ Failed(i, q2) /\ run[i][q2].err = ErrColumns

\* C16: when reading row j of a result set fails, the run stops at that row
\* and returns the error.  A run that returned a scan failure on row j, or a
\* fetch failure after j-1 rows, has emitted exactly the records of rows
\* 1..j-1, in order: none for row j and none for a later row.
C16_FailedRowStopsRun ==
    \A i \in Insts : \A q \in Names :
        /\ (Finished(i, q) /\ run[i][q].err = ErrScan) =>
               /\ run[i][q].j >= 1
               /\ OneRecordPerRow(acc[i][q], q, run[i][q].j - 1)
        /\ (Finished(i, q) /\ run[i][q].err = ErrRows) =>
               OneRecordPerRow(acc[i][q], q, run[i][q].j)

\* in one call the scan of the last row has failed in one run, after the
\* earlier rows were emitted, and the fetch of the second row in another
C16_Witness ==
    \E i \in Insts : \E q1, q2 \in Names :
        /\ run[i][q1].pc = "done" /\ run[i][q1].err = ErrScan
        /\ run[i][q1].j = MaxRows /\ Len(acc[i][q1]) = MaxRows - 1
        /\ run[i][q2].pc = "done" /\ run[i][q2].err = ErrRows
        /\ Len(acc[i][q2]) = 1

\* C19: when every run of a Gather call has succeeded, the call returns nil,
\* for every interleaving of the runs and of their stores.
C19_AllSucceededReturnsNil ==
    \A i \in Insts :
        (Returned(i) /\ \A q \in Names : Succeeded(i, q)) => ret[i] = Iface(Nil)

\* a call has returned after all its runs succeeded, one of them on a full
\* result set
C19_Witness ==
    \E i \in Insts :
        /\ Returned(i)
        /\ \A q \in Names : Succeeded(i, q)
        /\ \E q \in Names : Len(acc[i][q]) = MaxRows

\* C18: Gather terminates.  Provided every blocking operation of every run
\* returns, a Gather call that was entered returns, and by then each of its
\* runs has signalled completion, whether it ended on the successful or on a
\* failing exit path.
C18_GatherTerminates ==
    (gpc[1] = "make") ~>
        (Returned(1) /\ \A q \in Names : started[1][q] = 1 /\ run[1][q].pc = "done")

\* a call has returned whose runs ended on different exit paths: one at the
\* ping, one after its last row
C18_Witness ==
    \E q1, q2 \in Names :
        /\ Returned(1)
        /\ run[1][q1].pc = "done" /\ run[1][q1].err = ErrPing
        /\ run[1][q2].pc = "done" /\ run[1][q2].err = Nil /\ run[1][q2].j = MaxRows

\* C20: each Gather call runs its own catalog, also when the calls of two
\* instances with different IntervalSeconds overlap: the map a call iterates
\* holds, for every name, the entry built for the call's instance; every run
\* started for an instance executes the script built with that instance's
\* IntervalSeconds; and once its dispatch loop is over the call has started
\* exactly one run for every catalog entry.
C20_OwnCatalog ==
    \A i \in Insts :
        /\ (gpc[i] = "loop" /\ ranged[i] # 0) =>
               /\ DOMAIN maps[ranged[i]] = Names
               /\ \A q \in Names : maps[ranged[i]][q] = QueryOf(Stmt(q), i)
        /\ \A q \in Names :
               run[i][q].pc # "none" =>
                   run[i][q].query.Script = QueryOf(Stmt(q), i).Script
        /\ gpc[i] \in {"wait", "returned"} => \A q \in Names : started[i][q] = 1

\* C21: a run never modifies the catalog.  The column snapshot a run captures
\* is stored only in the run's own copy of its query descriptor: whatever
\* runs have executed, every catalog entry has the script and the measurement
\* it was built with and an empty ordered-column list, a run starts without a
\* column list, and the only list a run ever holds is that of its own result.
C21_RunsLeaveCatalogAlone ==
    /\ \A m \in MapIds : \A name \in DOMAIN maps[m] :
          /\ maps[m][name].OrderedColumns = <<>>
          /\ \E i \in Insts : maps[m][name] = BuiltFor[i][name]
    /\ \A i \in Insts :
          /\ gpc[i] \in {"range", "loop", "wait", "returned"} => maps[queries] = BuiltFor[i]
          /\ \A q \in Names :
                LET rn == run[i][q]
                IN  /\ rn.pc \in {"open", "ping", "query"} => rn.query.OrderedColumns = <<>>
                    /\ rn.pc = "next" => rn.query.OrderedColumns = ServerColumns(q)
                    /\ rn.query.OrderedColumns \in {<<>>, ServerColumns(q)}

\* a call has returned whose runs captured two different column lists, and
\* the catalog it built is still in place
C21_Witness ==
    \E i \in Insts : \E q1, q2 \in Names :
        /\ Returned(i)
        /\ DOMAIN maps[queries] = Names
        /\ run[i][q1].query.OrderedColumns # <<>>
        /\ run[i][q2].query.OrderedColumns # <<>>
        /\ run[i][q1].query.OrderedColumns # run[i][q2].query.OrderedColumns

====
